---- MODULE Spec2Model ----
(***************************************************************************)
(* BioMonkey: the SRA acquisition pipeline (sra_downloader.py) and the     *)
(* monitor that tails its log (app.py).                                    *)
(*                                                                         *)
(* The controller thread runs main(): search a page of uids, resolve them  *)
(* to run-info rows, hand the rows to a ThreadPoolExecutor, gate every     *)
(* successful download with FastQC as it completes, then decide whether to *)
(* stop.  Worker threads run download_single_sra_file().  The monitor      *)
(* re-reads the log file once per poll and counts by substring.            *)
(***************************************************************************)
EXTENDS Integers, Sequences, FiniteSets, TLC

\* ---------------------------------------------------------------- bounds

\* main() pages by batch_size = 10; the model keeps the name and scales the
\* page down so that every interleaving of a page's downloads is explored.
batch_size == 2
\* --num_datasets is drawn from 0..MaxTarget (argparse accepts any int).
MaxTarget == 3
\* The catalogue's <Count> is drawn from 0..MaxTotal.
MaxTotal == 3
\* The content-length a size probe reports, when it reports one.
DeclaredSize == 2
\* Polls of the monitor's loop that are explored.
MaxPolls == 2
\* Lines logged by download tasks are counted up to this many.
MaxTaskLines == 1
\* Log lines an OS pipe holds before a write to it blocks (64 KiB on Linux,
\* scaled down with the page).
PipeCapacity == 1

\* ---------------------------------------------------------------- helpers

Min(a, b) == IF a < b THEN a ELSE b
Max(a, b) == IF a > b THEN a ELSE b

\* __main__: workers = max(1, min(8, args.workers))
\* (variant: the lower clamp dropped)
ClampWorkersNoFloor(w) == Min(8, w)
ClampWorkers(w) == Max(1, Min(8, w))
\* --workers values tried: below the clamp range and inside it.
WorkerRequests == {0, 2}

\* A run-info row is modelled by its 'run' value; NoRun is a row whose XML
\* carried no <Run> element, so that run_info['run'] raises KeyError.
NoRun == 0
RunOf(uid) == uid
SecondRunOf(uid) == uid + MaxTotal
RunIds == 1 .. (2 * MaxTotal)

\* get_uid_from_term: the uids of the window [retstart, retstart+retmax).
Page(total, retmax, start) ==
    [k \in 1 .. Max(0, Min(retmax, total - start)) |-> start + k]

\* get_sraid_from_uid returns one dict per <Row> of the efetch answer, not
\* one per uid.  Every uid but the last of the page answers with its own run;
\* the last uid's record answers in one of these shapes.
Shapes == {"one", "two", "dup", "norun", "none"}
RowsOfShape(uid, shape) ==
    CASE shape = "one"   -> << RunOf(uid) >>
      [] shape = "two"   -> << RunOf(uid), SecondRunOf(uid) >>
      [] shape = "dup"   -> << RunOf(uid), RunOf(uid) >>
      [] shape = "norun" -> << NoRun >>
      [] OTHER           -> << >>
Rows(uid_list, shape) ==
    LET n == Len(uid_list) IN
    [k \in 1 .. (n - 1) |-> RunOf(uid_list[k])] \o RowsOfShape(uid_list[n], shape)

\* The dict comprehension of download_and_process_parallel evaluates
\* executor.submit(...) and then run_info['run'] for each row in turn: a row
\* without 'run' is submitted and then raises KeyError in the controller, so
\* the rows after it are never submitted.
FirstBad(rows) ==
    IF \E k \in 1 .. Len(rows) : rows[k] = NoRun
    THEN CHOOSE k \in 1 .. Len(rows) :
            rows[k] = NoRun /\ \A j \in 1 .. (k - 1) : rows[j] # NoRun
    ELSE 0
NSubmitted(rows) == IF FirstBad(rows) = 0 THEN Len(rows) ELSE FirstBad(rows)

\* ---------------------------------------------------------------- state

VARIABLES
    num_clean_datasets,   \* main's argument: the target
    workers,              \* main's argument, already clamped
    total,                \* the catalogue's <Count> for the term
    pc,                   \* where the controller thread is in main()
    retstart,             \* pagination cursor
    clean_datasets_count, \* accepted so far
    max_count,            \* <Count> of the last search
    uids,                 \* uids of the current page
    run_info_list,        \* rows of the current page
    dl,                   \* the page's futures: state of each download
    taken,                \* futures as_completed() has already yielded
    arrived,              \* futures ended and not yet yielded, oldest first
    gated,                \* futures handed to process_downloaded_file
    cur,                  \* future being gated (0: none)
    processed_files,      \* len(processed_files): only its length is ever read
    gz,                   \* GZ_TEMP_FOLDER: per run absent/partial/complete
    fq,                   \* fastqc_temp: runs with a results directory
    clean,                \* clean_datasets: runs copied there
    log,                  \* the log file: number of pass lines, of fail lines,
                          \* and of lines written by download tasks
    mpc,                  \* where the monitor is in its loop
    total_checked,        \* monitor: "Datasets Checked"
    current_clean,        \* monitor: "Clean Datasets"
    polls                 \* monitor: polls made

ctl == << pc, retstart, clean_datasets_count, max_count, uids, run_info_list >>
page == << dl, taken, arrived, gated, cur, processed_files >>
disk == << gz, fq, clean, log >>
args == << num_clean_datasets, workers, total >>
mon == << mpc, total_checked, current_clean, polls >>
vars == << args, ctl, page, disk, mon >>

Init ==
    /\ num_clean_datasets \in 0 .. MaxTarget
    /\ workers \in {ClampWorkers(w) : w \in WorkerRequests}
    /\ total \in 0 .. MaxTotal
    /\ pc = "loop"
    /\ retstart = 0
    /\ clean_datasets_count = 0
    /\ max_count = 0
    /\ uids = << >>
    /\ run_info_list = << >>
    /\ dl = << >>
    /\ taken = {}
    /\ arrived = << >>
    /\ gated = {}
    /\ cur = 0
    /\ processed_files = 0
    /\ gz = [r \in RunIds |-> "absent"]
    /\ fq = {}
    /\ clean = {}
    /\ log = [pass |-> 0, fail |-> 0, task |-> 0]
    /\ mpc = "read"
    /\ total_checked = 0
    /\ current_clean = 0
    /\ polls = 0

\* ---------------------------------------------------------------- workers

Queued(i) == dl[i] = "queued"
InFlight == {i \in 1 .. Len(dl) : dl[i] \in {"probing", "writing"}}
Finished(i) == dl[i] \in {"ok", "skipped", "fail", "raised"}
\* the task returned (sra_id, True): "skipped" at the early return taken when
\* the file is already there, "ok" at the return after the size check
Success(i) == dl[i] \in {"ok", "skipped"}

\* os.path.exists(path)
Exists(r) == gz[r] # "absent"

\* download_single_sra_file: if os.path.exists(sra_file_path): return sra_id, True
\* (variant: the existence check dropped, every task downloads again)
AlreadyDownloadedNever(r) == FALSE
AlreadyDownloaded(r) == Exists(r)

\* download_single_sra_file: success needs no exception and
\* not (actual_size < total_size).
\* (variant: the size check dropped)
SizeOkUnchecked(actual_size, total_size) == TRUE
SizeOk(actual_size, total_size) == ~(actual_size < total_size)
DownloadSucceeds(err, actual_size, total_size) ==
    ~err /\ SizeOk(actual_size, total_size)

\* download_single_sra_file logs from the pool thread it runs on: "already
\* exists, skipping..." (line 159), "Successfully downloaded" (line 191),
\* "Failed to download" (line 195).  The count saturates at MaxTaskLines.
TaskLogs(lg) == [lg EXCEPT !.task = Min(MaxTaskLines, @ + 1)]

\* except: if os.path.exists(sra_file_path): os.remove(sra_file_path)
RemovePartial(r) == [gz EXCEPT ![r] = "absent"]

\* A pool thread takes the oldest queued task (the executor's work queue is
\* FIFO) when fewer than max_workers tasks are running.
\* No 'run' key: KeyError, then the except clause reads the unbound sra_id
\* and the task ends with an exception.  File already there: skip.
StartDownload(i) ==
    /\ i \in 1 .. Len(dl)
    /\ Queued(i)
    /\ \A j \in 1 .. (i - 1) : ~Queued(j)
    /\ Cardinality(InFlight) < workers
    /\ \/ /\ run_info_list[i] = NoRun
          /\ dl' = [dl EXCEPT ![i] = "raised"]
          /\ arrived' = Append(arrived, i)
          /\ UNCHANGED log
       \/ /\ run_info_list[i] # NoRun
          /\ AlreadyDownloaded(run_info_list[i])
          /\ dl' = [dl EXCEPT ![i] = "skipped"]
          /\ arrived' = Append(arrived, i)
          /\ log' = TaskLogs(log)
       \/ /\ run_info_list[i] # NoRun
          /\ ~AlreadyDownloaded(run_info_list[i])
          /\ dl' = [dl EXCEPT ![i] = "probing"]
          /\ UNCHANGED << arrived, log >>
    /\ UNCHANGED << args, ctl, taken, gated, cur, processed_files, gz, fq, clean, mon >>

\* requests.head, requests.get and raise_for_status, then open(path, 'wb').
\* Either a request raises (nothing opened; the except clause removes
\* whatever is at the path), or the file is created and streaming starts.
Probe(i) ==
    /\ i \in 1 .. Len(dl)
    /\ dl[i] = "probing"
    /\ \/ /\ dl' = [dl EXCEPT ![i] = "fail"]
          /\ gz' = RemovePartial(run_info_list[i])
          /\ arrived' = Append(arrived, i)
          /\ log' = TaskLogs(log)
       \/ /\ dl' = [dl EXCEPT ![i] = "writing"]
          /\ gz' = [gz EXCEPT ![run_info_list[i]] = "partial"]
          /\ UNCHANGED << arrived, log >>
    /\ UNCHANGED << args, ctl, taken, gated, cur, processed_files, fq, clean, mon >>

\* The stream ends (err: it raised; written: bytes on disk; total_size: what
\* the size probe had answered, 0 without a content-length header), then
\* os.path.getsize, which raises if the file has been removed meanwhile.
FinishDownload(i, err, total_size, written) ==
    /\ i \in 1 .. Len(dl)
    /\ dl[i] = "writing"
    /\ IF Exists(run_info_list[i]) /\ DownloadSucceeds(err, written, total_size)
       THEN /\ dl' = [dl EXCEPT ![i] = "ok"]
            /\ gz' = [gz EXCEPT ![run_info_list[i]] = "complete"]
       ELSE /\ dl' = [dl EXCEPT ![i] = "fail"]
            /\ gz' = RemovePartial(run_info_list[i])
    /\ arrived' = Append(arrived, i)
    /\ log' = TaskLogs(log)
    /\ UNCHANGED << args, ctl, taken, gated, cur, processed_files, fq, clean, mon >>

Sizes == {0, DeclaredSize}
Written == {DeclaredSize - 1, DeclaredSize}

Worker(i) ==
    \/ StartDownload(i)
    \/ Probe(i)
    \/ \E err \in BOOLEAN, total_size \in Sizes, written \in Written :
          FinishDownload(i, err, total_size, written)

\* ---------------------------------------------------------------- controller

\* while clean_datasets_count < num_clean_datasets
LoopGuard(count, target) == count < target

\* get_uid_from_term raises on a non-200 answer; otherwise the page's uids
\* and the count.  An empty page ends the loop.
Search ==
    /\ pc = "loop"
    /\ LoopGuard(clean_datasets_count, num_clean_datasets)
    /\ \/ /\ pc' = "except"
          /\ UNCHANGED << max_count, uids >>
       \/ /\ max_count' = total
          /\ uids' = Page(total, batch_size, retstart)
          /\ pc' = IF uids' = << >> THEN "done" ELSE "resolve"
    /\ UNCHANGED << args, retstart, clean_datasets_count, run_info_list, page, disk, mon >>

WhileExit ==
    /\ pc = "loop"
    /\ ~LoopGuard(clean_datasets_count, num_clean_datasets)
    /\ pc' = "done"
    /\ UNCHANGED << args, retstart, clean_datasets_count, max_count, uids, run_info_list,
                    page, disk, mon >>

\* get_sraid_from_uid raises on a non-200 answer; otherwise the rows.
Resolve ==
    /\ pc = "resolve"
    /\ \/ /\ pc' = "except"
          /\ UNCHANGED run_info_list
       \/ \E shape \in Shapes :
            /\ run_info_list' = Rows(uids, shape)
            /\ pc' = "submit"
    /\ UNCHANGED << args, retstart, clean_datasets_count, max_count, uids, page, disk, mon >>

\* download_and_process_parallel, up to the end of the dict comprehension.
\* With a row without 'run' the comprehension raises and the with block
\* waits for the tasks already submitted (executor.__exit__).
Submit ==
    /\ pc = "submit"
    /\ dl' = [i \in 1 .. NSubmitted(run_info_list) |-> "queued"]
    /\ taken' = {}
    /\ arrived' = << >>
    /\ gated' = {}
    /\ processed_files' = 0
    /\ pc' = IF FirstBad(run_info_list) = 0 THEN "await" ELSE "abort"
    /\ UNCHANGED << args, retstart, clean_datasets_count, max_count, uids, run_info_list,
                    cur, disk, mon >>

\* All the orders in which the members of a set can be listed.
Orderings(S) ==
    {q \in [1 .. Cardinality(S) -> S] :
        \A a, b \in 1 .. Cardinality(S) : a # b => q[a] # q[b]}
Range(q) == {q[k] : k \in 1 .. Len(q)}
Without(q, i) == SelectSeq(q, LAMBDA x : x # i)

\* as_completed(fs): the futures that had ended before it was called are
\* collected into a set and yielded first, in the set's order; the futures
\* that end afterwards are yielded in the order they ended (the waiter's
\* list, reversed "to keep finishing order").  The call itself is placed at
\* the first yield of the page.
Yieldable(i) ==
    IF taken = {} THEN i \in Range(arrived)
    ELSE arrived # << >> /\ i = Head(arrived)
AfterYield(i) ==
    IF taken = {} THEN Orderings(Range(arrived) \ {i})
    ELSE {Without(arrived, i)}

\* for future in as_completed(...): sra_id, success = future.result();
\* if success: process_downloaded_file(...), which returns False at once when
\* the file is not there and otherwise runs the inspector (os.system), which
\* may or may not leave a results directory in fastqc_temp.
Take(i) ==
    /\ pc = "await"
    /\ i \in 1 .. Len(dl)
    /\ i \notin taken
    /\ dl[i] \in {"ok", "skipped", "fail"}
    /\ Yieldable(i)
    /\ arrived' \in AfterYield(i)
    /\ taken' = taken \cup {i}
    /\ \/ /\ ~Success(i)
          /\ UNCHANGED << pc, gated, cur, fq >>
       \/ /\ Success(i)
          /\ ~Exists(run_info_list[i])
          /\ gated' = gated \cup {i}
          /\ UNCHANGED << pc, cur, fq >>
       \/ /\ Success(i)
          /\ Exists(run_info_list[i])
          /\ gated' = gated \cup {i}
          /\ cur' = i
          /\ \E dir \in BOOLEAN :
                fq' = IF dir THEN fq \cup {run_info_list[i]} ELSE fq
          /\ pc' = "gate"
    /\ UNCHANGED << args, retstart, clean_datasets_count, max_count, uids, run_info_list,
                    dl, processed_files, gz, clean, log, mon >>

\* What the controller finds in the results directory: a summary without
\* FAIL, a summary with a FAIL line, no summary.txt, or a summary that cannot
\* be read (an exception inside the try block).  Without a results directory
\* there is no summary.
Summaries(dir) == IF dir THEN {"clean", "fail", "nosummary", "error"} ELSE {"nosummary"}

\* run_fastqc_...: True only when summary.txt is there, no line has FAIL, and
\* copy2 finds the file (it raises otherwise, which is caught).
\* (variant: the FAIL lines are not looked at)
AcceptsIgnoringFail(summary, present) == summary \in {"clean", "fail"} /\ present
Accepts(summary, present) == summary = "clean" /\ present

\* finally: shutil.rmtree(fastqc_results_dir) when it exists
RemoveResults(r) == fq \ {r}
\* finally: os.remove(gz_file_path) when it exists
RemoveGz(r) == [gz EXCEPT ![r] = "absent"]

\* The rest of run_fastqc_... and process_downloaded_file: the verdict, the
\* copy into clean_datasets, the log line the monitor counts, and both
\* finally clauses.
GateFinishWith(summary) ==
    /\ pc = "gate"
    /\ summary \in Summaries(run_info_list[cur] \in fq)
    /\ LET r == run_info_list[cur]
           ok == Accepts(summary, Exists(r))
       IN /\ clean' = IF ok THEN clean \cup {r} ELSE clean
          /\ processed_files' = IF ok THEN processed_files + 1 ELSE processed_files
          /\ log' = IF ok THEN [log EXCEPT !.pass = @ + 1]
                    ELSE IF summary = "fail" THEN [log EXCEPT !.fail = @ + 1]
                    ELSE log
          /\ fq' = RemoveResults(r)
          /\ gz' = RemoveGz(r)
    /\ cur' = 0
    /\ pc' = "await"
    /\ UNCHANGED << args, retstart, clean_datasets_count, max_count, uids, run_info_list,
                    dl, taken, arrived, gated, mon >>

GateFinish == \E summary \in Summaries(TRUE) : GateFinishWith(summary)

\* as_completed is exhausted: the with block ends and the list is returned;
\* the futures and the loop's other locals go out of scope.
PageDone ==
    /\ pc = "await"
    /\ taken = 1 .. Len(dl)
    /\ pc' = "eval"
    /\ dl' = << >>
    /\ taken' = {}
    /\ arrived' = << >>
    /\ gated' = {}
    /\ UNCHANGED << args, retstart, clean_datasets_count, max_count, uids, run_info_list,
                    cur, processed_files, disk, mon >>

\* if clean_datasets_count >= num_datasets: break
\* (variant: > for >=)
TargetReachedStrict(count, target) == count > target
TargetReached(count, target) == count >= target
\* retstart += batch_size
NextCursor(start) == start + batch_size
\* if retstart >= max_count: break
\* (variant: > for >=)
ExhaustedStrict(start, count) == start > count
Exhausted(start, count) == start >= count

\* main, lines 347-358.
Eval ==
    /\ pc = "eval"
    /\ clean_datasets_count' = clean_datasets_count + processed_files
    /\ processed_files' = 0
    /\ IF TargetReached(clean_datasets_count', num_clean_datasets)
       THEN /\ pc' = "done"
            /\ UNCHANGED retstart
       ELSE /\ retstart' = NextCursor(retstart)
            /\ pc' = IF Exhausted(retstart', max_count) THEN "done" ELSE "loop"
    /\ UNCHANGED << args, max_count, uids, run_info_list, dl, taken, arrived, gated, cur,
                    disk, mon >>

\* The KeyError leaves the with block once every submitted task has ended.
AbortJoin ==
    /\ pc = "abort"
    /\ \A i \in 1 .. Len(dl) : Finished(i)
    /\ pc' = "except"
    /\ dl' = << >>
    /\ arrived' = << >>
    /\ UNCHANGED << args, retstart, clean_datasets_count, max_count, uids, run_info_list,
                    taken, gated, cur, processed_files, disk, mon >>

\* except Exception: logging.error(...); continue
\* (variant: the handler moves on to the next page)
ExceptSkipping ==
    /\ pc = "except"
    /\ pc' = "loop"
    /\ retstart' = NextCursor(retstart)
    /\ UNCHANGED << args, clean_datasets_count, max_count, uids, run_info_list,
                    page, disk, mon >>
Except ==
    /\ pc = "except"
    /\ pc' = "loop"
    /\ UNCHANGED << args, retstart, clean_datasets_count, max_count, uids, run_info_list,
                    page, disk, mon >>

Controller ==
    \/ Search
    \/ WhileExit
    \/ Resolve
    \/ Submit
    \/ \E i \in 1 .. Len(dl) : Take(i)
    \/ GateFinish
    \/ PageDone
    \/ Eval
    \/ AbortJoin
    \/ Except

Workers == \E i \in 1 .. Len(dl) : Worker(i)

Next == Controller \/ Workers

Spec == Init /\ [][Next]_vars

\* The controller thread and every pool thread keep running: a step that
\* stays possible is eventually taken.  What the catalogue, the transport
\* and the inspector answer is not constrained.
MaxRows == batch_size + 1
Fairness ==
    /\ WF_vars(Controller)
    /\ \A i \in 1 .. MaxRows : WF_vars(Worker(i))
FairSpec == Spec /\ Fairness

\* ---------------------------------------------------------------- monitor

\* app.py main: per line of the log,
\*   if "FastQC found quality issues" in line: total_checked += 1
\*   elif "File passed quality check" in line: total_checked += 1; current_clean += 1
\* (variant: the elif branch forgets total_checked += 1)
CheckedLinesFailOnly(lg) == lg.fail
CheckedLines(lg) == lg.fail + lg.pass
CleanLines(lg) == lg.pass

\* process.poll() is not None: the pipeline has left its loop and exited
ChildExited == pc = "done"

\* One pass of the while True body up to the metrics update: the whole log
\* file is read again and every matching line is added to the counters.
MonRead ==
    /\ mpc = "read"
    /\ polls < MaxPolls
    /\ total_checked' = total_checked + CheckedLines(log)
    /\ current_clean' = current_clean + CleanLines(log)
    /\ polls' = polls + 1
    /\ mpc' = "check"
    /\ UNCHANGED << args, ctl, page, disk >>

\* if process.poll() is not None: break; else time.sleep(1)
MonCheck ==
    /\ mpc = "check"
    /\ mpc' = IF ChildExited THEN "final" ELSE "read"
    /\ UNCHANGED << args, ctl, page, disk, total_checked, current_clean, polls >>

Monitor == MonRead \/ MonCheck

\* The monitor and the pipeline it launched, with one worker, against a
\* catalogue of one full page and one more entry.
MonInit ==
    /\ Init
    /\ workers = ClampWorkers(0)
    /\ total = batch_size + 1
    /\ num_clean_datasets \in {0, batch_size}
MonSpec == MonInit /\ [][Next \/ Monitor]_vars

\* ---------------------------------------------------------------- outcomes

\* main, after the loop: the shortfall warning is logged exactly when
\* clean_datasets_count < num_clean_datasets.
DoneSuccess == pc = "done" /\ clean_datasets_count >= num_clean_datasets
DonePartial == pc = "done" /\ clean_datasets_count < num_clean_datasets

Futures == 1 .. Len(dl)
Succeeded == {i \in Futures : Success(i)}
Drained == taken = Futures /\ \A i \in Futures : Finished(i)
\* The controller is between pages or has ended.
BetweenPages == pc \in {"eval", "except", "loop", "resolve", "done"}

\* ---------------------------------------------------------------- claims

\* C1: stop policy.  A page is evaluated only once it is drained (every
\* download resolved, every successful one gated); the evaluation ends in
\* Done(success) when the accepted count has reached the target, else in
\* Done(partial) when cursor + page size >= total, else it advances the cursor
\* by exactly the page size and searches again.  With total <= page size and
\* the target not met, the first drained page ends the run, and nothing
\* follows Done.
C1_StopPolicy ==
    [][ /\ (pc # "eval" /\ pc' = "eval") =>
              (Drained /\ gated = Succeeded /\ cur = 0)
        /\ pc = "eval" =>
              LET acc == clean_datasets_count + processed_files IN
              /\ clean_datasets_count' = acc
              /\ IF acc >= num_clean_datasets
                 THEN DoneSuccess' /\ retstart' = retstart
                 ELSE IF retstart + batch_size >= max_count
                      THEN DonePartial'
                      ELSE pc' = "loop" /\ retstart' = retstart + batch_size
              /\ (max_count <= batch_size /\ acc < num_clean_datasets) =>
                    (retstart = 0 /\ DonePartial')
        /\ pc = "done" => pc' = "done" ]_vars

\* Done(partial) by exhaustion after the only page of a short catalogue.
C1_Witness ==
    /\ DonePartial
    /\ 0 < max_count /\ max_count <= batch_size
    /\ retstart = batch_size
    /\ Len(run_info_list) > 0

\* C2: overshoot bound.  In every terminal state the accepted count is at
\* most target - 1 + page size.
C2_OvershootBound ==
    pc = "done" => clean_datasets_count <= num_clean_datasets - 1 + batch_size

\* C3: early success.  When the first page holds page-size rows, all of them
\* accepted, and target <= page size < total, the evaluation of that page ends
\* the run in Done(success) with accepted count = page size and the cursor
\* still 0.
C3_EarlySuccess ==
    [][ ( /\ pc = "eval"
          /\ retstart = 0
          /\ clean_datasets_count = 0
          /\ Len(run_info_list) = batch_size
          /\ processed_files = batch_size
          /\ 1 <= num_clean_datasets /\ num_clean_datasets <= batch_size
          /\ batch_size < max_count )
        => ( /\ DoneSuccess'
             /\ clean_datasets_count' = batch_size
             /\ retstart' = 0 ) ]_vars

\* Done(success) on the first page of a longer catalogue, every row accepted.
C3_Witness ==
    /\ DoneSuccess
    /\ retstart = 0
    /\ clean_datasets_count = batch_size
    /\ Len(run_info_list) = batch_size
    /\ batch_size < max_count
    /\ 1 <= num_clean_datasets /\ num_clean_datasets <= batch_size

\* C4: termination.  Every run eventually reaches Done.
C4_Terminates == <>(pc = "done")

\* C5: counter invariants.  Accepted never exceeds checked, for the monitor's
\* counters and for the controller's count against the checked events it has
\* emitted; the checked counts never decrease; the cursor only ever moves by
\* +batch_size.
C5_Counters ==
    [][ /\ current_clean <= total_checked
        /\ current_clean' <= total_checked'
        /\ clean_datasets_count' + processed_files' <= CheckedLines(log')
        /\ total_checked' >= total_checked
        /\ current_clean' >= current_clean
        /\ CheckedLines(log') >= CheckedLines(log)
        /\ clean_datasets_count' >= clean_datasets_count
        /\ (retstart' = retstart \/ retstart' = retstart + batch_size) ]_vars

\* The monitor has finished after a run that moved the cursor and produced
\* both accepted and rejected items.
C5_Witness ==
    /\ mpc = "final"
    /\ current_clean >= 1
    /\ total_checked > current_clean
    /\ retstart > batch_size
    /\ clean_datasets_count >= 1

\* C6: per-page accounting.  Over the first drained page the checked count
\* (the lines the monitor counts as checked) has grown by exactly the number
\* of items of the page.
C6_CheckedPerPage ==
    (pc = "eval" /\ retstart = 0) => CheckedLines(log) = Len(run_info_list)

\* C7: every download outcome is consumed exactly once.  When the controller
\* leaves a page, the futures it has gated are exactly the successful ones.
C7_GatedExactlyOnce ==
    ( \/ (pc = "await" /\ Drained)
      \/ (pc = "abort" /\ \A i \in Futures : Finished(i)) )
    => gated = Succeeded

\* C8: cleanup.  Between pages and at Done, no run of the page just handled
\* has a file in GZ_TEMP_FOLDER or a results directory in fastqc_temp.
C8_Cleanup ==
    BetweenPages =>
        \A k \in 1 .. Len(run_info_list) :
            run_info_list[k] # NoRun =>
                (gz[run_info_list[k]] = "absent" /\ run_info_list[k] \notin fq)

\* C9: download failure.  A download that errors or writes fewer bytes than
\* declared ends with success = False; a download ends with success = True
\* after streaming only without error and with written >= declared; the step
\* that fails a download leaves no file at its path; a failed download is
\* never gated.
C9_DownloadFailure ==
    [][ \A i \in Futures :
          /\ \A err \in BOOLEAN, total_size \in Sizes, written \in Written :
                FinishDownload(i, err, total_size, written) =>
                    /\ (err \/ written < total_size) => dl'[i] = "fail"
                    /\ dl'[i] = "ok" => (~err /\ written >= total_size)
          /\ (Len(dl') = Len(dl) /\ dl[i] # "fail" /\ dl'[i] = "fail") =>
                gz'[run_info_list[i]] = "absent"
          /\ (Len(dl') = Len(dl) /\ dl'[i] = "fail") => i \notin gated' ]_vars

\* A failed download has been handed to the controller, which did not gate
\* it, and nothing is left at its path.
C9_Witness ==
    \E i \in Futures :
        /\ dl[i] = "fail"
        /\ i \in taken
        /\ i \notin gated
        /\ gz[run_info_list[i]] = "absent"

\* C10: idempotent skip.  A task that starts on a run whose file is already
\* there ends at once with success = True, without probing or fetching, and
\* leaves GZ_TEMP_FOLDER as it was.
C10_IdempotentSkip ==
    [][ \A i \in Futures :
          ( /\ Len(dl') = Len(dl)
            /\ dl[i] = "queued" /\ dl'[i] # "queued"
            /\ run_info_list[i] # NoRun
            /\ Exists(run_info_list[i]) )
          => (dl'[i] = "skipped" /\ Success(i)' /\ gz' = gz) ]_vars

\* A second pass over a run downloaded by an earlier pass: the task was
\* skipped, no other row of the page names the run, the file is complete.
C10_Witness ==
    \E i \in Futures :
        /\ dl[i] = "skipped"
        /\ gz[run_info_list[i]] = "complete"
        /\ \A j \in 1 .. Len(run_info_list) : j # i => run_info_list[j] # run_info_list[i]

\* What the threads owe on their own: the controller thread runs when it
\* can, and a pool thread that is free takes the next queued task.  The
\* remote is not obliged to answer: requests.head and requests.get are called
\* without a timeout, so a probe or a body stream may never return.
SchedFairness ==
    /\ WF_vars(Controller)
    /\ \A i \in 1 .. MaxRows : WF_vars(StartDownload(i))

\* The pipeline against the longest catalogue, asked for nothing or for the
\* largest target, with its threads scheduled fairly.
PoolInit ==
    /\ Init
    /\ total = MaxTotal
    /\ num_clean_datasets \in {0, MaxTarget}
PoolSpec == PoolInit /\ [][Next]_vars /\ SchedFairness

\* Futures of the page whose download has not ended yet.
Undownloaded == {i \in Futures : ~Finished(i)}

C12_GateDecision ==
    [][ /\ \A summary \in Summaries(TRUE) :
              GateFinishWith(summary) =>
                LET r == run_info_list[cur]
                    accepted == processed_files' = processed_files + 1
                IN /\ accepted => summary = "clean"
                   /\ (summary = "clean" /\ Exists(r)) => accepted
                   /\ summary \in {"fail", "nosummary", "error"} => ~accepted
                   /\ r \notin fq => ~accepted
                   /\ accepted <=> log'.pass = log.pass + 1
                   /\ clean' = IF accepted THEN clean \cup {r} ELSE clean
                   /\ ~accepted => processed_files' = processed_files
        /\ pc # "gate" => clean' = clean
        /\ Cardinality(clean') <= log'.pass ]_vars

\* A page on which one gate accepted and copied its run and another gate
\* rejected its run, which is not in clean_datasets.
C12_Witness ==
    /\ pc = "await"
    /\ \E i \in gated : run_info_list[i] \in clean
    /\ \E j \in gated : run_info_list[j] \notin clean
    /\ processed_files = 1

\* C13: item failures are absorbed.  The controller leaves a page only
\* towards its evaluation, with every row of the page submitted, every
\* download ended, every successful one gated, and the page's accepted runs
\* then added to the count; no item failure sends it to the error handler.
C13_FailuresAbsorbed ==
    [][ /\ (pc \in {"submit", "await", "abort"} /\ pc' \notin {"submit", "await", "abort", "gate"}) =>
              /\ pc' = "eval"
              /\ Len(dl) = Len(run_info_list)
              /\ Drained
              /\ gated = Succeeded
        /\ pc' = "abort" => FALSE
        /\ pc = "eval" =>
              clean_datasets_count' = clean_datasets_count + processed_files ]_vars

\* The controller is inside download_and_process_parallel.
InPage == pc \in {"await", "gate", "abort"}

\* C14: no indefinite blocking.  Every download of a page eventually ends,
\* whatever the remote does, and the controller eventually leaves the page.
C14_NoHang ==
    /\ \A i \in 1 .. MaxRows :
          (i \in Futures /\ ~Finished(i)) ~> (i \notin Futures \/ Finished(i))
    /\ InPage ~> ~InPage

\* app.py main, after the loop: success or warning by current_clean >= num_datasets
MonitorSuccess == mpc = "final" /\ current_clean >= num_clean_datasets
MonitorShortfall == mpc = "final" /\ current_clean < num_clean_datasets

\* C15: the final report agrees with the outcome.  Once the monitor has
\* left its loop, it shows success exactly when the pipeline ended with the
\* target reached, and the shortfall warning exactly when the pipeline ended
\* below the target.
C15_FinalReport ==
    mpc = "final" =>
        /\ MonitorSuccess <=> DoneSuccess
        /\ MonitorShortfall <=> DonePartial

\* ---------------------------------------------------------------- interruption

\* main() takes no cancellation argument and installs no signal handler; the
\* one signal it can be sent is the interpreter's KeyboardInterrupt, raised in
\* the controller thread.  'except Exception' does not catch it.  Outside
\* download_and_process_parallel it ends main with a traceback, before the
\* final log lines.  Inside, it leaves through the finally clauses of the
\* gate (the results directory is removed only if its name was already bound)
\* and then through the with block, which waits for the pool.
Interrupt ==
    /\ pc \notin {"done", "unwind", "killed"}
    /\ \/ /\ pc \in {"loop", "resolve", "submit", "eval", "except"}
          /\ pc' = "killed"
          /\ UNCHANGED << cur, fq, gz >>
       \/ /\ pc \in {"await", "abort"}
          /\ pc' = "unwind"
          /\ UNCHANGED << cur, fq, gz >>
       \/ /\ pc = "gate"
          /\ pc' = "unwind"
          /\ cur' = 0
          /\ gz' = RemoveGz(run_info_list[cur])
          /\ fq' \in {fq, RemoveResults(run_info_list[cur])}
    /\ UNCHANGED << args, retstart, clean_datasets_count, max_count, uids, run_info_list,
                    dl, taken, arrived, gated, processed_files, clean, log, mon >>

\* executor.__exit__: shutdown(wait=True) returns once every submitted task
\* has run to its end; queued tasks are not cancelled.
Unwound ==
    /\ pc = "unwind"
    /\ \A i \in 1 .. Len(dl) : Finished(i)
    /\ pc' = "killed"
    /\ UNCHANGED << args, retstart, clean_datasets_count, max_count, uids, run_info_list,
                    page, disk, mon >>

Interrupted == pc \in {"unwind", "killed"}

\* The pipeline with a user who may interrupt it; the remote answers every
\* request and the threads are scheduled fairly.
CancelSpec ==
    /\ PoolInit
    /\ [][Next \/ Interrupt \/ Unwound]_vars
    /\ Fairness
    /\ WF_vars(Unwound)

\* C16: cancellation.  Once the signal is raised, no download starts or goes
\* on (a download that changes state fails), no search or resolve is made,
\* nothing partially written is left in GZ_TEMP_FOLDER when the controller
\* has stopped, and the controller reaches Done(partial).
C16_Cancellation ==
    /\ [][ Interrupted =>
              /\ \A i \in Futures : dl'[i] # dl[i] => dl'[i] = "fail"
              /\ uids' = uids /\ run_info_list' = run_info_list ]_vars
    /\ [](pc = "killed" => \A r \in RunIds : gz[r] # "partial")
    /\ Interrupted ~> DonePartial

\* C17: same-cursor retry.  The step on which a search or a resolve fails,
\* and the handler's step back to the head of the loop, change neither
\* retstart nor clean_datasets_count nor clean_datasets nor the two scratch
\* folders; the search that follows asks for the window at that retstart.
C17_SameCursorRetry ==
    [][ /\ ((pc \in {"loop", "resolve"} /\ pc' = "except") \/ pc = "except") =>
              /\ retstart' = retstart
              /\ clean_datasets_count' = clean_datasets_count
              /\ clean' = clean
              /\ gz' = gz /\ fq' = fq
        /\ pc = "except" => pc' = "loop"
        /\ (pc = "loop" /\ pc' = "resolve") =>
              (retstart' = retstart /\ uids' = Page(total, batch_size, retstart)) ]_vars

\* The search or the resolve of the second page has failed, after the first
\* page had a run accepted.
C17_Witness ==
    /\ pc = "except"
    /\ retstart = batch_size
    /\ clean_datasets_count >= 1
    /\ clean # {}
    /\ \A k \in 1 .. Len(run_info_list) : run_info_list[k] # NoRun

\* C18: serialized gate, concurrent downloads.  At most one inspection is
\* under way at any time (one future being gated, and no results directory
\* but its own); and every successful download the controller takes from
\* as_completed to gate is the one that ended first among the successful
\* ones not yet taken.
C18_SerializedGate ==
    /\ [](/\ Cardinality(fq) <= 1
          /\ (pc = "gate") <=> (cur # 0)
          /\ fq # {} => (pc = "gate" /\ fq = {run_info_list[cur]}))
    /\ [][ \A i \in Futures :
              (Take(i) /\ Success(i)) =>
                  i = Head(SelectSeq(arrived, LAMBDA x : Success(x))) ]_vars

\* C19: strict cross-page ordering.  While the controller searches, resolves
\* or evaluates, no download exists that has not ended; and on every step by
\* which it leaves a page, towards the evaluation or towards the error
\* handler, every download of the page has ended and every successful one
\* has been gated.
C19_CrossPageOrder ==
    /\ [](BetweenPages => Undownloaded = {})
    /\ [][ (InPage /\ ~InPage') =>
              /\ \A i \in Futures : Finished(i)
              /\ Succeeded \subseteq gated
              /\ cur' = 0 ]_vars

\* C20: single-writer event stream.  No step of a download task appends to
\* the log, only steps of the controller thread do; and no line once
\* written is removed.
C20_SingleWriter ==
    [][ /\ Workers => log' = log
        /\ log'.pass >= log.pass
        /\ log'.fail >= log.fail
        /\ log'.task >= log.task ]_vars

\* C21: no path collision.  No two downloads in flight at the same time
\* have the same run, hence the same path in GZ_TEMP_FOLDER; and while a run
\* is being gated, no download in flight has that run.
C21_NoPathCollision ==
    /\ \A i, j \in InFlight : i # j => run_info_list[i] # run_info_list[j]
    /\ pc = "gate" => \A i \in InFlight : run_info_list[i] # run_info_list[cur]

\* The controller is outside download_and_process_parallel and has added the
\* last page's accepted runs to its count.
Counted == pc \in {"loop", "resolve", "submit", "except", "done"}

\* C22: the count accounts for every acceptance.  Between pages and at
\* Done, clean_datasets_count equals the number of gates that accepted (one
\* pass line each), is at least the number of runs copied into
\* clean_datasets, and counts no run twice, so it equals that number.
C22_CountAccounts ==
    Counted =>
        /\ clean_datasets_count = log.pass
        /\ clean_datasets_count >= Cardinality(clean)
        /\ clean_datasets_count <= Cardinality(clean)

\* C23: the monitor counts each event once.  After every poll the monitor's
\* total_checked is the number of pass and fail lines in the log it has just
\* read and its current_clean the number of pass lines; at no time does
\* current_clean exceed the number of runs the pipeline has accepted.
C23_CountsOnce ==
    [][ /\ (mpc = "read" /\ mpc' = "check") =>
              /\ total_checked' = CheckedLines(log)
              /\ current_clean' = CleanLines(log)
        /\ current_clean' <= clean_datasets_count' + processed_files' ]_vars

\* ---------------------------------------------------------------- pipes

\* app.py starts the pipeline with stdout=PIPE and stderr=PIPE and never
\* reads either.  logging.basicConfig gives the pipeline a StreamHandler next
\* to the FileHandler, so every line of the log file is also written to
\* stderr: the pipe holds at least the pass and fail lines logged so far.
PipeFill == log.pass + log.fail

\* The gate logs a line on every path (lines 291, 298, 308, 313); with the
\* pipe full, the write to stderr blocks until the pipe is read.
PipeAccepts == pc = "gate" => PipeFill < PipeCapacity
PipeBlocked == pc = "gate" /\ ~(PipeFill < PipeCapacity)

\* The pipeline as the monitor's child process, and the monitor.
PipedNext == PipeAccepts /\ Next
PipeSpec == MonInit /\ [][PipedNext \/ Monitor]_vars

\* C24: the pipeline never blocks on the monitor.  In no state does the
\* pipeline wait to write to its pipe while the monitor, which does not read
\* the pipe, waits in its loop for the pipeline to exit.
C24_NeverBlocks == ~(PipeBlocked /\ mpc # "final")

====
